---- MODULE Spec2Model ----
(***************************************************************************)
(* QueryBuilder (src/src/querybuilder/QueryBuilder.ts): a fluent builder   *)
(* of Cypher query text with a side map of named parameters.               *)
(*                                                                         *)
(* A string is modelled as the sequence of its lexemes: a keyword with its *)
(* trailing blank ("MATCH "), a caller-supplied atom ("p"), a parenthesis, *)
(* a rendered number, or the newline "\n".  The empty string is <<>>.      *)
(* Concatenation is \o, so two strings are equal exactly when their        *)
(* lexeme sequences are.                                                   *)
(*                                                                         *)
(* Objects live in a store [qb, heap]: qb maps a builder's identity to its *)
(* fields, and the field `parameters` holds a reference into heap, the     *)
(* sequence of parameter-map objects.  This keeps apart the two things the *)
(* code keeps apart: a map's content and a map's identity.                 *)
(***************************************************************************)
EXTENDS Integers, Sequences, FiniteSets, TLC

\* ------------------------------------------------------------------ bounds

\* Freely chosen calls keep the rendered texts of the two builders, in
\* lexemes, plus the entries of the parameter maps, within MaxText.
MaxText == 6

\* ------------------------------------------------------------------ inputs

Builders == {"A", "B"}
Sub == "sub"

Patterns == {<<"p">>}
Conditions == {<<"c">>}
Expressions == {<<"e">>}
Counts == {0, 5}
Names == {"a"}
Values == {1, 2}

NL == "\n"
Null == <<>>
NoRef == 0

\* ------------------------------------------------------- parameter objects

EmptyMap == [n \in {} |-> 0]

\* this.parameters[name] = value
MapSet(m, name, value) ==
    [n \in (DOMAIN m) \cup {name} |-> IF n = name THEN value ELSE m[n]]

\* delete m[name]
MapDelete(m, name) == [n \in (DOMAIN m) \ {name} |-> m[n]]

\* Object.assign(target, source)
ObjectAssign(target, source) ==
    [n \in (DOMAIN target) \cup (DOMAIN source) |->
        IF n \in DOMAIN source THEN source[n] ELSE target[n]]

\* { ...m }: a new object with m's entries, placed at the end of the heap
Spread(s, ref) == [s EXCEPT !.heap = Append(@, s.heap[ref])]

\* the reference the next allocated object gets
NewRef(s) == Len(s.heap) + 1

\* ------------------------------------------------------------ the builder

\* the field initialisers of a QueryBuilder whose parameters object is ref
FreshBuilder(ref) ==
    [matchClauses |-> <<>>, whereClauses |-> <<>>, withClauses |-> <<>>,
     returnClause |-> <<>>, orderByClause |-> <<>>,
     skipValue |-> Null, limitValue |-> Null, parameters |-> ref]

\* new QueryBuilder(), known as b
construct(s, b) ==
    [qb |-> (b :> FreshBuilder(NewRef(s))) @@ s.qb,
     heap |-> Append(s.heap, EmptyMap)]

match(s, b, pattern) ==
    [s EXCEPT !.qb[b].matchClauses = Append(@, <<"MATCH ">> \o pattern)]

optionalMatch(s, b, pattern) ==
    [s EXCEPT !.qb[b].matchClauses = Append(@, <<"OPTIONAL MATCH ">> \o pattern)]

where(s, b, condition) ==
    [s EXCEPT !.qb[b].whereClauses = Append(@, <<"WHERE ">> \o condition)]

\* andWhere without the test for an empty buffer
andWhereAlwaysAnd(s, b, condition) ==
    [s EXCEPT !.qb[b].whereClauses = Append(@, <<"AND ">> \o condition)]

andWhere(s, b, condition) ==
    IF Len(s.qb[b].whereClauses) = 0
    THEN where(s, b, condition)
    ELSE [s EXCEPT !.qb[b].whereClauses = Append(@, <<"AND ">> \o condition)]

\* orWhere without the test for an empty buffer
orWhereAlwaysOr(s, b, condition) ==
    [s EXCEPT !.qb[b].whereClauses = Append(@, <<"OR ">> \o condition)]

orWhere(s, b, condition) ==
    IF Len(s.qb[b].whereClauses) = 0
    THEN where(s, b, condition)
    ELSE [s EXCEPT !.qb[b].whereClauses = Append(@, <<"OR ">> \o condition)]

with(s, b, expression) ==
    [s EXCEPT !.qb[b].withClauses = Append(@, <<"WITH ">> \o expression)]

return(s, b, expression) ==
    [s EXCEPT !.qb[b].returnClause = <<"RETURN ">> \o expression]

orderBy(s, b, expression) ==
    [s EXCEPT !.qb[b].orderByClause = <<"ORDER BY ">> \o expression]

\* a number | null slot holds Null or <<count>>
skip(s, b, count) == [s EXCEPT !.qb[b].skipValue = <<count>>]

limit(s, b, count) == [s EXCEPT !.qb[b].limitValue = <<count>>]

setParameter(s, b, name, value) ==
    [s EXCEPT !.heap[s.qb[b].parameters] = MapSet(@, name, value)]

\* `${n}` of a number
NumStr(n) == <<ToString(n)>>

\* parts.filter(Boolean): the empty string is the only falsy string
RECURSIVE FilterBoolean(_)
FilterBoolean(parts) ==
    IF parts = <<>> THEN <<>>
    ELSE IF Head(parts) = <<>> THEN FilterBoolean(Tail(parts))
    ELSE <<Head(parts)>> \o FilterBoolean(Tail(parts))

\* parts.join('\n')
RECURSIVE Join(_)
Join(parts) ==
    IF parts = <<>> THEN <<>>
    ELSE IF Len(parts) = 1 THEN Head(parts)
    ELSE Head(parts) \o <<NL>> \o Join(Tail(parts))

\* build with the with buffer spread before the where buffer
buildWithBeforeWhere(s, b) ==
    LET q == s.qb[b]
        parts0 == q.matchClauses \o q.withClauses \o q.whereClauses
                    \o <<q.returnClause, q.orderByClause>>
        parts1 == IF q.skipValue # Null
                  THEN Append(parts0, <<"SKIP ">> \o NumStr(q.skipValue[1]))
                  ELSE parts0
        parts2 == IF q.limitValue # Null
                  THEN Append(parts1, <<"LIMIT ">> \o NumStr(q.limitValue[1]))
                  ELSE parts1
    IN  Join(FilterBoolean(parts2))

build(s, b) ==
    LET q == s.qb[b]
        parts0 == q.matchClauses \o q.whereClauses \o q.withClauses
                    \o <<q.returnClause, q.orderByClause>>
        parts1 == IF q.skipValue # Null
                  THEN Append(parts0, <<"SKIP ">> \o NumStr(q.skipValue[1]))
                  ELSE parts0
        parts2 == IF q.limitValue # Null
                  THEN Append(parts1, <<"LIMIT ">> \o NumStr(q.limitValue[1]))
                  ELSE parts1
    IN  Join(FilterBoolean(parts2))

\* getParameters handing out this.parameters itself
getParametersNoCopy(s, b) == [store |-> s, ref |-> s.qb[b].parameters]

\* the store after the call, and the reference the call returns
getParameters(s, b) ==
    [store |-> Spread(s, s.qb[b].parameters), ref |-> NewRef(s)]

\* clear without `this.parameters = {}`
clearKeepsParameters(s, b) ==
    [s EXCEPT !.qb[b].matchClauses = <<>>,
              !.qb[b].whereClauses = <<>>,
              !.qb[b].withClauses = <<>>,
              !.qb[b].returnClause = <<>>,
              !.qb[b].orderByClause = <<>>,
              !.qb[b].skipValue = Null,
              !.qb[b].limitValue = Null]

clear(s, b) ==
    [qb |-> [s.qb EXCEPT ![b].matchClauses = <<>>,
                         ![b].whereClauses = <<>>,
                         ![b].withClauses = <<>>,
                         ![b].returnClause = <<>>,
                         ![b].orderByClause = <<>>,
                         ![b].skipValue = Null,
                         ![b].limitValue = Null,
                         ![b].parameters = NewRef(s)],
     heap |-> Append(s.heap, EmptyMap)]

\* One call of the chained interface, as a record [op, arg].
Call(s, b, c) ==
    CASE c.op = "match" -> match(s, b, c.arg)
      [] c.op = "optionalMatch" -> optionalMatch(s, b, c.arg)
      [] c.op = "where" -> where(s, b, c.arg)
      [] c.op = "andWhere" -> andWhere(s, b, c.arg)
      [] c.op = "orWhere" -> orWhere(s, b, c.arg)
      [] c.op = "with" -> with(s, b, c.arg)
      [] c.op = "return" -> return(s, b, c.arg)
      [] c.op = "orderBy" -> orderBy(s, b, c.arg)
      [] c.op = "skip" -> skip(s, b, c.arg)
      [] c.op = "limit" -> limit(s, b, c.arg)
      [] c.op = "setParameter" -> setParameter(s, b, c.arg[1], c.arg[2])
      [] c.op = "clear" -> clear(s, b)

\* A callback is the sequence of chained calls it makes on the builder it is
\* handed.
RECURSIVE RunCallback(_, _, _)
RunCallback(s, b, callback) ==
    IF callback = <<>> THEN s
    ELSE RunCallback(Call(s, b, Head(callback)), b, Tail(callback))

subquery(s, b, callback) ==
    LET s1 == construct(s, Sub)
        s2 == RunCallback(s1, Sub, callback)
        text == build(s2, Sub)
        s3 == [s2 EXCEPT !.qb[b].matchClauses =
                            Append(@, <<"(">> \o text \o <<")">>)]
        got == getParameters(s3, Sub)
        s4 == got.store
    IN  [s4 EXCEPT !.heap[s4.qb[b].parameters] =
                        ObjectAssign(@, s4.heap[got.ref])]

\* union clearing the other builder as well, once its text is taken
unionClearsOther(s, b, otherQuery) ==
    LET currentQuery == build(s, b)
        unionQuery == build(s, otherQuery)
        got == getParameters(s, otherQuery)
        s1 == clear(clear(got.store, otherQuery), b)
        s2 == [s1 EXCEPT !.qb[b].matchClauses =
                            Append(@, currentQuery \o <<NL, "UNION", NL>> \o unionQuery)]
    IN  [s2 EXCEPT !.heap[s2.qb[b].parameters] =
                        ObjectAssign(@, s2.heap[got.ref])]

union(s, b, otherQuery) ==
    LET currentQuery == build(s, b)
        unionQuery == build(s, otherQuery)
        s1 == clear(s, b)
        s2 == [s1 EXCEPT !.qb[b].matchClauses =
                            Append(@, currentQuery \o <<NL, "UNION", NL>> \o unionQuery)]
        got == getParameters(s2, otherQuery)
        s3 == got.store
    IN  [s3 EXCEPT !.heap[s3.qb[b].parameters] =
                        ObjectAssign(@, s3.heap[got.ref])]

unionAll(s, b, otherQuery) ==
    LET currentQuery == build(s, b)
        unionQuery == build(s, otherQuery)
        s1 == clear(s, b)
        s2 == [s1 EXCEPT !.qb[b].matchClauses =
                            Append(@, currentQuery \o <<NL, "UNION ALL", NL>> \o unionQuery)]
        got == getParameters(s2, otherQuery)
        s3 == got.store
    IN  [s3 EXCEPT !.heap[s3.qb[b].parameters] =
                        ObjectAssign(@, s3.heap[got.ref])]

\* ------------------------------------------------------------- the state

VARIABLES
    qb,        \* the two builders the caller holds, by identity
    heap,      \* the parameter-map objects: <<A's, B's, the returned one>>
    held,      \* the reference last returned by getParameters, or NoRef
    last,      \* the most recent call: [op, self, other], and whether self was dirty
    followed   \* how far the calls made since construction follow a test scenario

vars == <<qb, heap, held, last, followed>>

\* The callbacks handed to subquery.
Callbacks ==
    << <<>>,
       <<[op |-> "match", arg |-> <<"p">>], [op |-> "return", arg |-> <<"e">>]>>,
       <<[op |-> "andWhere", arg |-> <<"c">>], [op |-> "setParameter", arg |-> <<"a", 2>>]>> >>

\* The call sequences of the tests 'should build a query with subquery' and
\* 'should handle complex queries', and those of 'should build a query with
\* UNION' and 'should build a query with UNION ALL' with an optional pattern
\* in otherBuilder and a parameter set on each builder, so that the two texts
\* and the two maps differ.  A is `builder`, B is `otherBuilder`.
Scenarios ==
    << <<[b |-> "A", op |-> "match", arg |-> <<"p">>],
         [b |-> "A", op |-> "where", arg |-> <<"c">>],
         [b |-> "A", op |-> "subquery", arg |-> 2],
         [b |-> "A", op |-> "return", arg |-> <<"e">>]>>,
       <<[b |-> "A", op |-> "match", arg |-> <<"p">>],
         [b |-> "A", op |-> "where", arg |-> <<"c">>],
         [b |-> "A", op |-> "andWhere", arg |-> <<"c">>],
         [b |-> "A", op |-> "with", arg |-> <<"e">>],
         [b |-> "A", op |-> "optionalMatch", arg |-> <<"p">>],
         [b |-> "A", op |-> "return", arg |-> <<"e">>],
         [b |-> "A", op |-> "orderBy", arg |-> <<"e">>],
         [b |-> "A", op |-> "skip", arg |-> 5],
         [b |-> "A", op |-> "limit", arg |-> 0]>>,
       <<[b |-> "B", op |-> "optionalMatch", arg |-> <<"p">>],
         [b |-> "B", op |-> "return", arg |-> <<"e">>],
         [b |-> "B", op |-> "setParameter", arg |-> <<"a", 1>>],
         [b |-> "A", op |-> "match", arg |-> <<"p">>],
         [b |-> "A", op |-> "return", arg |-> <<"e">>],
         [b |-> "A", op |-> "setParameter", arg |-> <<"a", 2>>],
         [b |-> "A", op |-> "union", arg |-> "B"]>>,
       <<[b |-> "B", op |-> "optionalMatch", arg |-> <<"p">>],
         [b |-> "B", op |-> "return", arg |-> <<"e">>],
         [b |-> "B", op |-> "setParameter", arg |-> <<"a", 1>>],
         [b |-> "A", op |-> "match", arg |-> <<"p">>],
         [b |-> "A", op |-> "return", arg |-> <<"e">>],
         [b |-> "A", op |-> "setParameter", arg |-> <<"a", 2>>],
         [b |-> "A", op |-> "unionAll", arg |-> "B"]>> >>

SameCall(b, c, d) == b = d.b /\ c.op = d.op /\ c.arg = d.arg

\* the calls made so far are no longer the start of any scenario
Off == [n |-> 0, live |-> {}]

\* followed after the call c on builder b
Follow(b, c) ==
    LET live == {k \in followed.live :
                    /\ followed.n < Len(Scenarios[k])
                    /\ SameCall(b, c, Scenarios[k][followed.n + 1])}
    IN  IF live = {} THEN Off ELSE [n |-> followed.n + 1, live |-> live]

\* The store with the objects the caller can still reach, renamed: A's
\* parameters 1, B's 2, a returned map that is neither 3.  An object's
\* identity shows only in what shares it, so nothing observable changes.
Canon(s, h) ==
    LET refA == s.qb["A"].parameters
        refB == s.qb["B"].parameters
        ren(r) == IF r = refA THEN 1 ELSE IF r = refB THEN 2 ELSE 3
    IN  [qb |-> [b \in Builders |-> [s.qb[b] EXCEPT !.parameters = ren(@)]],
         heap |-> << s.heap[refA],
                     IF refB = refA THEN EmptyMap ELSE s.heap[refB],
                     IF h # NoRef /\ ren(h) = 3 THEN s.heap[h] ELSE EmptyMap >>,
         held |-> IF h = NoRef THEN NoRef ELSE ren(h)]

Store == [qb |-> qb, heap |-> heap]

\* the rendered texts of the two builders, in lexemes, and the entries of
\* the parameter maps
Size(n) ==
    Len(build(n, "A")) + Len(build(n, "B"))
      + Cardinality(DOMAIN n.heap[1]) + Cardinality(DOMAIN n.heap[2])
      + Cardinality(DOMAIN n.heap[3])

\* the calls the caller makes: within the bound, or along a test scenario
InBounds(n, f) == Size(n) <= MaxText \/ f.live # {}

\* builder b is not as a new QueryBuilder() is
Dirty(b) == build(Store, b) # <<>> \/ heap[qb[b].parameters] # EmptyMap

\* the call c on builder b takes the store to s1 and hands back h
Step(b, c, other, s1, h) ==
    \E n \in {Canon(s1, h)}, f \in {Follow(b, c)} :
        /\ InBounds(n, f)
        /\ qb' = n.qb
        /\ heap' = n.heap
        /\ held' = n.held
        /\ followed' = f
        /\ last' = [op |-> c.op, self |-> b, other |-> other, dirty |-> Dirty(b)]

Init ==
    LET s == construct(construct([qb |-> EmptyMap, heap |-> <<>>], "A"), "B")
    IN  /\ qb = s.qb
        /\ heap = Append(s.heap, EmptyMap)
        /\ held = NoRef
        /\ last = [op |-> "new", self |-> "-", other |-> "-", dirty |-> FALSE]
        /\ followed = [n |-> 0, live |-> DOMAIN Scenarios]

Match(b) ==
    \E p \in Patterns : \E s1 \in {match(Store, b, p)} :
        Step(b, [op |-> "match", arg |-> p], "-", s1, held)

OptionalMatch(b) ==
    \E p \in Patterns : \E s1 \in {optionalMatch(Store, b, p)} :
        Step(b, [op |-> "optionalMatch", arg |-> p], "-", s1, held)

Where(b) ==
    \E c \in Conditions : \E s1 \in {where(Store, b, c)} :
        Step(b, [op |-> "where", arg |-> c], "-", s1, held)

AndWhere(b) ==
    \E c \in Conditions : \E s1 \in {andWhere(Store, b, c)} :
        Step(b, [op |-> "andWhere", arg |-> c], "-", s1, held)

OrWhere(b) ==
    \E c \in Conditions : \E s1 \in {orWhere(Store, b, c)} :
        Step(b, [op |-> "orWhere", arg |-> c], "-", s1, held)

With(b) ==
    \E e \in Expressions : \E s1 \in {with(Store, b, e)} :
        Step(b, [op |-> "with", arg |-> e], "-", s1, held)

Return(b) ==
    \E e \in Expressions : \E s1 \in {return(Store, b, e)} :
        Step(b, [op |-> "return", arg |-> e], "-", s1, held)

OrderBy(b) ==
    \E e \in Expressions : \E s1 \in {orderBy(Store, b, e)} :
        Step(b, [op |-> "orderBy", arg |-> e], "-", s1, held)

Skip(b) ==
    \E k \in Counts : \E s1 \in {skip(Store, b, k)} :
        Step(b, [op |-> "skip", arg |-> k], "-", s1, held)

Limit(b) ==
    \E k \in Counts : \E s1 \in {limit(Store, b, k)} :
        Step(b, [op |-> "limit", arg |-> k], "-", s1, held)

SetParameter(b) ==
    \E name \in Names, value \in Values :
    \E s1 \in {setParameter(Store, b, name, value)} :
        Step(b, [op |-> "setParameter", arg |-> <<name, value>>], "-", s1, held)

Clear(b) ==
    \E s1 \in {clear(Store, b)} :
        Step(b, [op |-> "clear", arg |-> 0], "-", s1, held)

\* build() hands build(Store, b) to the caller and assigns nothing
Build(b) == UNCHANGED vars

GetParameters(b) ==
    \E got \in {getParameters(Store, b)} :
    \E n \in {Canon(got.store, got.ref)} :
        /\ Size(n) <= MaxText
        /\ qb' = n.qb
        /\ heap' = n.heap
        /\ held' = n.held
        /\ last' = [op |-> "getParameters", self |-> b, other |-> "-",
                     dirty |-> Dirty(b)]
        /\ followed' = Off

Subquery(b) ==
    \E i \in DOMAIN Callbacks :
    \E s1 \in {subquery(Store, b, Callbacks[i])} :
        Step(b, [op |-> "subquery", arg |-> i], "-", s1, held)

Union(b) ==
    \E o \in Builders :
    \E s1 \in {union(Store, b, o)} :
        Step(b, [op |-> "union", arg |-> o], o, s1, held)

UnionAll(b) ==
    \E o \in Builders :
    \E s1 \in {unionAll(Store, b, o)} :
        Step(b, [op |-> "unionAll", arg |-> o], o, s1, held)

\* the caller adds, replaces or deletes a key of the mapping getParameters
\* returned
MutateReturned ==
    /\ held # NoRef
    /\ \E name \in Names :
          \/ \E value \in Values :
                heap' = [heap EXCEPT ![held] = MapSet(@, name, value)]
          \/ /\ name \in DOMAIN heap[held]
             /\ heap' = [heap EXCEPT ![held] = MapDelete(@, name)]
    /\ Size([qb |-> qb, heap |-> heap']) <= MaxText
    /\ last' = [op |-> "mutate", self |-> "-", other |-> "-", dirty |-> FALSE]
    /\ followed' = Off
    /\ UNCHANGED <<qb, held>>

Next ==
    \/ \E b \in Builders :
          \/ Match(b) \/ OptionalMatch(b)
          \/ Where(b) \/ AndWhere(b) \/ OrWhere(b)
          \/ With(b) \/ Return(b) \/ OrderBy(b)
          \/ Skip(b) \/ Limit(b) \/ SetParameter(b)
          \/ Build(b) \/ GetParameters(b) \/ Clear(b)
          \/ Subquery(b) \/ Union(b) \/ UnionAll(b)
    \/ MutateReturned

Spec == Init /\ [][Next]_vars

\* ------------------------------------------------------------ properties

StoreNext == [qb |-> qb', heap |-> heap']

\* the content of the mapping getParameters hands back for builder b
Parameters(s, b) ==
    LET got == getParameters(s, b) IN got.store.heap[got.ref]

\* parts joined by single newlines, built from the left
RECURSIVE JoinLeft(_)
JoinLeft(parts) ==
    IF Len(parts) = 0 THEN <<>>
    ELSE IF Len(parts) = 1 THEN parts[1]
    ELSE JoinLeft(SubSeq(parts, 1, Len(parts) - 1)) \o <<NL>> \o parts[Len(parts)]

\* the three buffers in insertion order, then each slot that is set
FamiliesInOrder(q) ==
    q.matchClauses \o q.whereClauses \o q.withClauses
      \o (IF q.returnClause # <<>> THEN <<q.returnClause>> ELSE <<>>)
      \o (IF q.orderByClause # <<>> THEN <<q.orderByClause>> ELSE <<>>)
      \o (IF q.skipValue # Null
          THEN << <<"SKIP ", ToString(q.skipValue[1])>> >> ELSE <<>>)
      \o (IF q.limitValue # Null
          THEN << <<"LIMIT ", ToString(q.limitValue[1])>> >> ELSE <<>>)

C2_SubqueryAfterWhere ==
    followed = [n |-> 4, live |-> {1}] =>
        build(Store, "A") =
            <<"MATCH ", "p", NL, "WHERE ", "c", NL,
              "(", "p", NL, "RETURN ", "e", ")", NL, "RETURN ", "e">>

\* C3: after match, where, andWhere, with, optionalMatch, return, orderBy,
\* skip, limit on a fresh builder, build() has one line per call in call
\* order: the OPTIONAL MATCH line comes after the WITH line.
C3_LinesInCallOrder ==
    followed = [n |-> 9, live |-> {2}] =>
        build(Store, "A") =
            <<"MATCH ", "p", NL, "WHERE ", "c", NL, "AND ", "c", NL,
              "WITH ", "e", NL, "OPTIONAL MATCH ", "p", NL, "RETURN ", "e", NL,
              "ORDER BY ", "e", NL, "SKIP ", "5", NL, "LIMIT ", "0">>

\* the step is the call op on builder b with argument builder o
IsCall(op, b, o) ==
    last'.op = op /\ last'.self = b /\ last'.other = o

\* C4: after A.union(B) (A.unionAll(B)), for any B, A itself included,
\* A.build() is A's text before the call, '\nUNION\n' ('\nUNION ALL\n'), B's
\* text at the call, and A.getParameters() is B's parameters at the call.
C4_UnionTextAndParameters ==
    [][\A b \in Builders, o \in Builders :
          /\ IsCall("union", b, o) =>
                /\ build(StoreNext, b) =
                      build(Store, b) \o <<NL, "UNION", NL>> \o build(Store, o)
                /\ Parameters(StoreNext, b) = Parameters(Store, o)
          /\ IsCall("unionAll", b, o) =>
                /\ build(StoreNext, b) =
                      build(Store, b) \o <<NL, "UNION ALL", NL>> \o build(Store, o)
                /\ Parameters(StoreNext, b) = Parameters(Store, o)]_vars

\* builder o is, field by field and in text and parameters, as before the step
SameBuilder(o) ==
    /\ qb'[o] = qb[o]
    /\ build(StoreNext, o) = build(Store, o)
    /\ Parameters(StoreNext, o) = Parameters(Store, o)

\* C5 (as claimed): union(other) and unionAll(other) leave the builder passed
\* as other unchanged, whatever instance it is.
C5_OtherUnchangedAnyInstance ==
    [][\A b \in Builders, o \in Builders :
          IsCall("union", b, o) \/ IsCall("unionAll", b, o) => SameBuilder(o)]_vars

\* C5 (amended): union(other) and unionAll(other) leave the builder passed as
\* other unchanged when it is not the receiver itself.
C5_OtherUnchanged ==
    [][\A b \in Builders : \A o \in Builders \ {b} :
          IsCall("union", b, o) \/ IsCall("unionAll", b, o) => SameBuilder(o)]_vars

\* a union with another builder that holds text and a parameter
C5_UnionWithOther ==
    /\ last.op \in {"union", "unionAll"}
    /\ last.other # last.self
    /\ build(Store, last.other) # <<>>
    /\ Parameters(Store, last.other) # EmptyMap
    /\ last.dirty

\* C6: the text build() returns never ends with a newline, the inputs being
\* non-empty and free of newlines.
C6_NoTrailingNewline ==
    \A b \in Builders :
        LET text == build(Store, b)
        IN  text # <<>> => text[Len(text)] # NL

\* C7: after clear(), whatever came before, the builder is as a new
\* QueryBuilder() is: every field as constructed, a parameters object of its
\* own that is empty, build() the empty string.
C7_ClearResets ==
    last.op = "clear" =>
        /\ qb[last.self] = FreshBuilder(qb[last.self].parameters)
        /\ \A o \in Builders \ {last.self} :
              qb[o].parameters # qb[last.self].parameters
        /\ held # qb[last.self].parameters
        /\ build(Store, last.self) = <<>>
        /\ Parameters(Store, last.self) = EmptyMap

\* clear() on a builder that held text or parameters
C7_ClearedDirtyBuilder == last.op = "clear" /\ last.dirty

\* C8: andWhere(c) and orWhere(c) on an empty where buffer leave the state
\* where(c) leaves, a 'WHERE c' fragment alone in the buffer; on a non-empty
\* one they append 'AND c' / 'OR c' as the last entry and change nothing else.
C8_AndOrWhere ==
    [][\A b \in Builders :
          /\ IsCall("andWhere", b, "-") =>
                \E c \in Conditions :
                    /\ qb' = [qb EXCEPT ![b].whereClauses =
                                IF @ = <<>> THEN << <<"WHERE ">> \o c >>
                                ELSE @ \o << <<"AND ">> \o c >>]
                    /\ qb[b].whereClauses = <<>> => qb' = where(Store, b, c).qb
                    /\ heap' = heap /\ held' = held
          /\ IsCall("orWhere", b, "-") =>
                \E c \in Conditions :
                    /\ qb' = [qb EXCEPT ![b].whereClauses =
                                IF @ = <<>> THEN << <<"WHERE ">> \o c >>
                                ELSE @ \o << <<"OR ">> \o c >>]
                    /\ qb[b].whereClauses = <<>> => qb' = where(Store, b, c).qb
                    /\ heap' = heap /\ held' = held]_vars

\* andWhere as the first where-family call on a builder
C8_AndWhereFirst ==
    /\ last.op = "andWhere"
    /\ Len(qb[last.self].whereClauses) = 1

\* C9: adding, replacing or deleting keys of a mapping getParameters returned
\* changes no builder's parameters or text, and setParameter on one builder
\* changes no other builder's parameters.
C9_ReturnedMapIsACopy ==
    [][/\ last'.op = "mutate" =>
            \A b \in Builders :
                /\ Parameters(StoreNext, b) = Parameters(Store, b)
                /\ build(StoreNext, b) = build(Store, b)
       /\ \A b \in Builders :
            IsCall("setParameter", b, "-") =>
                \A o \in Builders \ {b} :
                    Parameters(StoreNext, o) = Parameters(Store, o)]_vars

\* the caller has changed a returned mapping while a builder holds parameters
C9_MutatedReturnedMap ==
    /\ last.op = "mutate"
    /\ \E b \in Builders :
          /\ Parameters(Store, b) # EmptyMap
          /\ heap[held] # Parameters(Store, b)

\* C10: in every reachable state a non-empty where buffer starts with a
\* 'WHERE ...' fragment, never with 'AND ...' or 'OR ...'.
C10_WhereBufferStartsWithWhere ==
    \A b \in Builders :
        qb[b].whereClauses # <<>> => Head(qb[b].whereClauses[1]) = "WHERE "

\* orWhere as the first where-family call, on a builder that held other
\* clauses or parameters already
C10_OrWhereFirst ==
    /\ last.op = "orWhere"
    /\ last.dirty
    /\ Len(qb[last.self].whereClauses) = 1

====
